---- MODULE Spec2Model ----
(***************************************************************************)
(* Model of the probe-and-verify pipeline of nym:                          *)
(*   - the path-key codec and the PathChecker of the validator             *)
(*     (validator/health_check/path_check.rs),                             *)
(*   - the MixnetListener of the network monitor                           *)
(*     (network-monitor/network/mixnet_listener.rs).                       *)
(* Each component has its own specification over the shared variables.     *)
(***************************************************************************)
EXTENDS Integers, Sequences, FiniteSets, TLC

\* ---------------------------------------------------------------------
\* Bounds of the model
\* ---------------------------------------------------------------------
MaxPathLen == 2

MaxExtra == 2

MaxProviders == 2

MaxFeed == 3

MaxBatch == 2

MaxInFlight == 2

MaxRelays == 2

\* ---------------------------------------------------------------------
\* Program constants
\* ---------------------------------------------------------------------
\* [u8; 32]: the width of a public key
KeyLen == 32

\* u8
ByteMod == 256

\* ---------------------------------------------------------------------
\* Data: nodes with 32-byte public keys and an address
\* ---------------------------------------------------------------------
\* a 32-byte key whose bytes depend on the position (wraps around u8)
KeyOf(b) == [i \in 1..KeyLen |-> (b + i) % ByteMod]

\* SphinxNode / MixProviderNode: pub_key and address (client_listener)
SphinxNode(b, a) == [pub_key |-> KeyOf(b), address |-> a]

\* two relays and two providers
Relays == {SphinxNode(10, 1), SphinxNode(240, 2)}

ProviderNodes == {SphinxNode(100, 4), SphinxNode(200, 5)}

Nodes == Relays \cup ProviderNodes

RECURSIVE SeqsUpTo(_, _)
SeqsUpTo(S, n) ==
    IF n = 0 THEN {<<>>}
    ELSE LET shorter == SeqsUpTo(S, n - 1)
         IN  shorter \cup {Append(s, x) : s \in {t \in shorter : Len(t) = n - 1}, x \in S}

Paths == SeqsUpTo(Nodes, MaxPathLen)

\* iteration: u8
Iterations == {0, 1, 255}

\* ---------------------------------------------------------------------
\* The path-key codec
\* ---------------------------------------------------------------------
\* path.iter().map(|node| node.pub_key.to_bytes().to_vec()).flatten()
RECURSIVE flatten_keys(_)
flatten_keys(path) ==
    IF path = <<>> THEN <<>>
    ELSE path[1].pub_key \o flatten_keys(Tail(path))

unique_path_key_no_iteration(path, iteration) == flatten_keys(path)

\* std::iter::once(iteration).chain(...).collect()
unique_path_key(path, iteration) == <<iteration>> \o flatten_keys(path)

\* itertools chunks(n): consecutive chunks of n items, the last one shorter
\* when the length is not a multiple of n
RECURSIVE chunks(_, _)
chunks(bytes, n) ==
    IF bytes = <<>> THEN <<>>
    ELSE IF Len(bytes) <= n THEN <<bytes>>
    ELSE <<SubSeq(bytes, 1, n)>> \o chunks(SubSeq(bytes, n + 1, Len(bytes)), n)

\* key.copy_from_slice(&key_chunk_vec) panics unless the lengths agree
copy_from_slice_ok(chunk) == Len(chunk) = KeyLen

\* skip(1).chunks(32).map(copy_from_slice).collect()
collect_keys(path_key) ==
    LET cs == chunks(IF path_key = <<>> THEN <<>> ELSE Tail(path_key), KeyLen)
    IN  IF \A i \in 1..Len(cs) : copy_from_slice_ok(cs[i])
        THEN [panic |-> "none", keys |-> cs]
        ELSE [panic |-> "copy_from_slice", keys |-> <<>>]

path_key_to_node_keys_no_assert(path_key) == collect_keys(path_key)

\* assert_eq!(path_key.len() % 32, 1) and then the chunking
path_key_to_node_keys(path_key) ==
    IF Len(path_key) % KeyLen # 1
    THEN [panic |-> "assert_eq", keys |-> <<>>]
    ELSE collect_keys(path_key)

\* the public keys of a path, in path order
node_keys(path) == [i \in 1..Len(path) |-> path[i].pub_key]

VARIABLES
    \* the codec: the caller's position, its path and iteration byte, the
    \* byte vector and the result of path_key_to_node_keys
    codec_pc, path, iteration, path_key, decoded,
    \* PathChecker::new: position, the providers argument, the loop index,
    \* the registrations attempted so far and the log lines written
    checker_pc, providers, reg_index, reg_log, warnings, errors,
    \* the fields of PathChecker
    provider_clients, layer_one_clients, paths_status,
    \* what the last call of check_path did
    last_call,
    \* the inbound channel: the packets the transport will yield, how many of
    \* them it has yielded, the batches not yet received, whether it is closed
    feed, delivered, channel, closed,
    \* MixnetListener: position, the rest of the batch being iterated, the
    \* reassembly state of its MessageReceiver, the reason of its panic
    listener_pc, messages, reassembly, listener_panic,
    \* the packets on_message was called with and the lines printed
    processed, sink,
    \* Monitor::run: the statement it is at, the message of its panic, and
    \* what it has done: authenticated, spawned the listener, the topology it
    \* fetched, the relay the sweep is at and the ticks of the pacing timer
    monitor_pc, monitor_panic, authenticated, listener_spawned, topology,
    sweep_index, ticks,
    \* batch_send_sphinx_packets: the sends awaited, the sends completed, and
    \* the packets on their way through the mixnet back to the prober
    in_flight, sends, network

NotDecoded == [panic |-> "not_called", keys |-> <<>>]


codec_vars == <<codec_pc, path, iteration, path_key, decoded>>

checker_vars == <<checker_pc, providers, reg_index, reg_log, warnings, errors,
                  provider_clients, layer_one_clients, paths_status, last_call>>

listener_vars == <<feed, delivered, channel, closed, listener_pc, messages,
                   reassembly, listener_panic, processed, sink>>

monitor_vars == <<monitor_pc, monitor_panic, authenticated, listener_spawned,
                  topology, sweep_index, ticks, in_flight, sends, network>>

vars == <<codec_pc, path, iteration, path_key, decoded,
          checker_pc, providers, reg_index, reg_log, warnings, errors,
          provider_clients, layer_one_clients, paths_status, last_call,
          feed, delivered, channel, closed, listener_pc, messages,
          reassembly, listener_panic, processed, sink,
          monitor_pc, monitor_panic, authenticated, listener_spawned,
          topology, sweep_index, ticks, in_flight, sends, network>>

\* the empty HashMap
EmptyMap == [k \in {} |-> "Unreachable"]

NoCall == [path |-> <<>>, result |-> "not_called", built |-> 0, sent |-> <<>>]

\* the variables of a component that is not running
CodecIdle ==
    /\ codec_pc = "idle"
    /\ path = <<>>
    /\ iteration = 0
    /\ path_key = <<>>
    /\ decoded = NotDecoded

CheckerIdle ==
    /\ checker_pc = "idle"
    /\ providers = <<>>
    /\ reg_index = 1
    /\ reg_log = <<>>
    /\ warnings = 0
    /\ errors = 0
    /\ provider_clients = EmptyMap
    /\ layer_one_clients = EmptyMap
    /\ paths_status = EmptyMap
    /\ last_call = NoCall

ListenerIdle ==
    /\ feed = <<>>
    /\ delivered = 0
    /\ channel = <<>>
    /\ closed = FALSE
    /\ listener_pc = "idle"
    /\ messages = <<>>
    /\ reassembly = EmptyMap
    /\ listener_panic = "none"
    /\ processed = <<>>
    /\ sink = <<>>

NotFetched == [fetched |-> FALSE, mix_nodes |-> <<>>]

MonitorIdle ==
    /\ monitor_pc = "idle"
    /\ monitor_panic = "none"
    /\ authenticated = FALSE
    /\ listener_spawned = FALSE
    /\ topology = NotFetched
    /\ sweep_index = 0
    /\ ticks = 0
    /\ in_flight = {}
    /\ sends = <<>>
    /\ network = <<>>

CodecInit ==
    /\ codec_pc = "start"
    /\ path \in Paths
    /\ iteration \in Iterations
    /\ path_key = <<>>
    /\ decoded = NotDecoded
    /\ CheckerIdle
    /\ ListenerIdle
    /\ MonitorIdle

\* a caller computes the key of its path
EncodePath ==
    /\ codec_pc = "start"
    /\ path_key' = unique_path_key(path, iteration)
    /\ codec_pc' = "encoded"
    /\ UNCHANGED <<path, iteration, decoded>>

\* a caller hands path_key_to_node_keys some other byte vector: a path key
\* cut to n bytes
TruncateKey ==
    /\ codec_pc = "encoded"
    /\ \E n \in 0..(Len(path_key) - 1) : path_key' = SubSeq(path_key, 1, n)
    /\ codec_pc' = "raw"
    /\ UNCHANGED <<path, iteration, decoded>>

\* ... or a path key followed by up to MaxExtra more bytes
ExtendKey ==
    /\ codec_pc = "encoded"
    /\ \E n \in 1..MaxExtra : path_key' = path_key \o [i \in 1..n |-> 7]
    /\ codec_pc' = "raw"
    /\ UNCHANGED <<path, iteration, decoded>>

\* ... or a whole number of keys without the iteration byte
RawKeys ==
    /\ codec_pc = "start"
    /\ path_key' = flatten_keys(path)
    /\ codec_pc' = "raw"
    /\ UNCHANGED <<path, iteration, decoded>>

DecodeKey ==
    /\ codec_pc \in {"encoded", "raw"}
    /\ decoded' = path_key_to_node_keys(path_key)
    /\ codec_pc' = IF codec_pc = "encoded" THEN "decoded" ELSE "decoded_raw"
    /\ UNCHANGED <<path, iteration, path_key>>

CodecNext ==
    \/ EncodePath /\ UNCHANGED <<checker_vars, listener_vars, monitor_vars>>
    \/ TruncateKey /\ UNCHANGED <<checker_vars, listener_vars, monitor_vars>>
    \/ ExtendKey /\ UNCHANGED <<checker_vars, listener_vars, monitor_vars>>
    \/ RawKeys /\ UNCHANGED <<checker_vars, listener_vars, monitor_vars>>
    \/ DecodeKey /\ UNCHANGED <<checker_vars, listener_vars, monitor_vars>>

SpecCodec == CodecInit /\ [][CodecNext]_vars

\* C1: decoding the key of a path gives exactly the public keys of the path,
\* in path order, whatever the iteration byte
C1_RoundTrip ==
    codec_pc = "decoded" => decoded = [panic |-> "none", keys |-> node_keys(path)]

\* a path of two hops with different keys was encoded with a non-zero
\* iteration byte and decoded
C1_Witness ==
    /\ codec_pc = "decoded"
    /\ Len(path) = 2
    /\ path[1].pub_key # path[2].pub_key
    /\ iteration = 255
    /\ Len(decoded.keys) = 2

\* C2: a path key is 32 * len(P) + 1 bytes long, and decoding any input whose
\* length is not 1 modulo 32 stops at the assertion and returns no list
C2_LengthAndReject ==
    /\ codec_pc \in {"encoded", "decoded"} => Len(path_key) = KeyLen * Len(path) + 1
    /\ (codec_pc = "decoded_raw" /\ Len(path_key) % KeyLen # 1)
          => decoded = [panic |-> "assert_eq", keys |-> <<>>]

\* the empty input was rejected
C2_Witness ==
    /\ codec_pc = "decoded_raw"
    /\ path_key = <<>>
    /\ decoded.panic = "assert_eq"

\* ---------------------------------------------------------------------
\* PathChecker
\* ---------------------------------------------------------------------
\* HashMap::insert: the value of the key is replaced
insert(map, key, value) ==
    [k \in DOMAIN map \cup {key} |-> IF k = key THEN value ELSE map[k]]

\* HashMap::entry(key).or_insert(value): an existing value is kept
or_insert(map, key, value) ==
    [k \in DOMAIN map \cup {key} |-> IF k \in DOMAIN map THEN map[k] ELSE value]

registration_entry_always_some(ok) == "Connected"

\* Ok(token) => insert(.., Some(provider_client)); Err(err) => insert(.., None)
registration_entry(ok) == IF ok THEN "Connected" ELSE "Unreachable"

CheckerInit ==
    /\ checker_pc = "registering"
    /\ providers \in SeqsUpTo(ProviderNodes, MaxProviders)
    /\ reg_index = 1
    /\ reg_log = <<>>
    /\ warnings = 0
    /\ errors = 0
    /\ provider_clients = EmptyMap
    /\ layer_one_clients = EmptyMap
    /\ paths_status = EmptyMap
    /\ last_call = NoCall
    /\ CodecIdle
    /\ ListenerIdle
    /\ MonitorIdle

\* one iteration of `for provider in providers`: register().await answers Ok
\* or Err, the outcome is inserted, and a previous entry is reported
RegisterProvider ==
    /\ checker_pc = "registering"
    /\ reg_index <= Len(providers)
    /\ \E ok \in BOOLEAN :
          LET provider == providers[reg_index]
              key == provider.pub_key
              insertion_result_is_some == key \in DOMAIN provider_clients
          IN  /\ provider_clients' = insert(provider_clients, key, registration_entry(ok))
              /\ reg_log' = Append(reg_log, [provider |-> provider, ok |-> ok])
              /\ warnings' = IF ok THEN warnings ELSE warnings + 1
              /\ errors' = IF insertion_result_is_some THEN errors + 1 ELSE errors
    /\ reg_index' = reg_index + 1
    /\ UNCHANGED <<checker_pc, providers, layer_one_clients, paths_status, last_call>>

\* the loop is over: PathChecker { provider_clients, layer_one_clients:
\* HashMap::new(), paths_status: HashMap::new(), .. }
FinishNew ==
    /\ checker_pc = "registering"
    /\ reg_index > Len(providers)
    /\ checker_pc' = "ready"
    /\ layer_one_clients' = EmptyMap
    /\ paths_status' = EmptyMap
    /\ UNCHANGED <<providers, reg_index, reg_log, warnings, errors,
                   provider_clients, last_call>>

provider_is_none_never(client) == FALSE

\* provider_client.is_none()
provider_is_none(client) == client = "Unreachable"

first_node_address_of_last(p) == p[Len(p)].address

\* socket_address_from_encoded_bytes(layer_one_mix.address.to_bytes())
first_node_address(p) == p[1].address

check_path_marks_failed_hop(p, send_ok) ==
    LET unchanged(result) ==
            [result |-> result, layer_one |-> layer_one_clients,
             built |-> 0, sent |-> <<>>]
    IN  IF p = <<>> \/ p[Len(p)].pub_key \notin DOMAIN provider_clients
        THEN unchanged("panic")
        ELSE IF provider_is_none(provider_clients[p[Len(p)].pub_key])
        THEN unchanged("false")
        ELSE LET layer_one == or_insert(layer_one_clients, p[1].pub_key, "Connected")
             IN  IF layer_one[p[1].pub_key] = "Unreachable"
                 THEN [result |-> "false", layer_one |-> layer_one,
                       built |-> 0, sent |-> <<>>]
                 ELSE [result |-> IF send_ok THEN "true" ELSE "false",
                       layer_one |-> IF send_ok THEN layer_one
                                     ELSE insert(layer_one, p[1].pub_key, "Unreachable"),
                       built |-> 1, sent |-> <<first_node_address(p)>>]

\* check_path(&mut self, path) with the outcome of the send: the returned
\* value, the caches afterwards, the packets built and the sends attempted
check_path(p, send_ok) ==
    LET unchanged(result) ==
            [result |-> result, layer_one |-> layer_one_clients,
             built |-> 0, sent |-> <<>>]
    IN  IF p = <<>>
        THEN unchanged("panic")                \* path.last().unwrap()
        ELSE IF p[Len(p)].pub_key \notin DOMAIN provider_clients
        THEN unchanged("panic")                \* provider_clients.get(..).unwrap()
        ELSE IF provider_is_none(provider_clients[p[Len(p)].pub_key])
        THEN unchanged("false")
        ELSE LET first_node_key == p[1].pub_key
                 layer_one == or_insert(layer_one_clients, first_node_key, "Connected")
             IN  IF layer_one[first_node_key] = "Unreachable"
                 THEN [result |-> "false", layer_one |-> layer_one,
                       built |-> 0, sent |-> <<>>]
                 ELSE [result |-> IF send_ok THEN "true" ELSE "false",
                       layer_one |-> layer_one,
                       built |-> 1, sent |-> <<first_node_address(p)>>]

\* a caller checks a path; a panic unwinds the task that owns the checker
CheckPath ==
    /\ checker_pc = "ready"
    /\ \E p \in Paths, send_ok \in BOOLEAN :
          LET r == check_path(p, send_ok)
          IN  /\ last_call' = [path |-> p, result |-> r.result,
                               built |-> r.built, sent |-> r.sent]
              /\ layer_one_clients' = r.layer_one
              /\ checker_pc' = IF r.result = "panic" THEN "panicked" ELSE "ready"
    /\ UNCHANGED <<providers, reg_index, reg_log, warnings, errors,
                   provider_clients, paths_status>>

CheckerNext ==
    \/ RegisterProvider /\ UNCHANGED <<codec_vars, listener_vars, monitor_vars>>
    \/ FinishNew /\ UNCHANGED <<codec_vars, listener_vars, monitor_vars>>
    \/ CheckPath /\ UNCHANGED <<codec_vars, listener_vars, monitor_vars>>

SpecChecker == CheckerInit /\ [][CheckerNext]_vars

\* the key of the provider a path ends at, and of its first hop
ProviderKey(p) == p[Len(p)].pub_key

FirstHopKey(p) == p[1].pub_key

\* the step is a call of check_path on a path ending at a cached provider
CalledOnCachedProvider ==
    /\ checker_pc = "ready"
    /\ last_call'.path # <<>>
    /\ ProviderKey(last_call'.path) \in DOMAIN provider_clients

\* C3: a call of check_path on a path ending at a provider cached Unreachable
\* returns false, builds no packet and attempts no send
C3_ProviderShortCircuit ==
    [][(CalledOnCachedProvider
          /\ provider_clients[ProviderKey(last_call'.path)] = "Unreachable")
        => (/\ last_call'.result = "false"
            /\ last_call'.built = 0
            /\ last_call'.sent = <<>>
            /\ layer_one_clients' = layer_one_clients
            /\ provider_clients' = provider_clients)]_vars

\* check_path returned false on a two-hop path whose provider is Unreachable,
\* while another provider is Connected
C3_Witness ==
    /\ checker_pc = "ready"
    /\ Len(last_call.path) = 2
    /\ ProviderKey(last_call.path) \in DOMAIN provider_clients
    /\ provider_clients[ProviderKey(last_call.path)] = "Unreachable"
    /\ \E k \in DOMAIN provider_clients : provider_clients[k] = "Connected"
    /\ last_call.result = "false"
    /\ last_call.sent = <<>>

\* C5: a call on a path whose provider is Connected and whose first hop has
\* no entry adds the entry first hop -> Connected and nothing else to the
\* caches, builds one packet and attempts one send, to the first hop's address
C5_LazyFirstHop ==
    [][(CalledOnCachedProvider
          /\ provider_clients[ProviderKey(last_call'.path)] = "Connected"
          /\ FirstHopKey(last_call'.path) \notin DOMAIN layer_one_clients)
        => (/\ DOMAIN layer_one_clients' =
                  DOMAIN layer_one_clients \cup {FirstHopKey(last_call'.path)}
            /\ layer_one_clients'[FirstHopKey(last_call'.path)] = "Connected"
            /\ \A k \in DOMAIN layer_one_clients :
                  layer_one_clients'[k] = layer_one_clients[k]
            /\ provider_clients' = provider_clients
            /\ last_call'.built = 1
            /\ last_call'.sent = <<last_call'.path[1].address>>)]_vars

\* the first hop of a two-hop path was cached by the call and the send went
\* to its address, which is not the provider's
C5_Witness ==
    /\ checker_pc = "ready"
    /\ Len(last_call.path) = 2
    /\ DOMAIN layer_one_clients = {FirstHopKey(last_call.path)}
    /\ last_call.sent = <<last_call.path[1].address>>
    /\ last_call.path[1].address # last_call.path[2].address
    /\ last_call.built = 1

\* the public keys of the providers argument are pairwise distinct
DistinctProviderKeys ==
    \A i, j \in 1..Len(providers) :
        providers[i].pub_key = providers[j].pub_key => i = j

\* C6: with distinct provider keys, once the constructor is through,
\* registration was attempted for every provider of the list, in order, and
\* the provider cache has one entry per provider, Connected exactly when that
\* provider's registration succeeded
C6_FailSoftRegistration ==
    (checker_pc \in {"ready", "panicked"} /\ DistinctProviderKeys)
    => /\ Len(reg_log) = Len(providers)
       /\ \A i \in 1..Len(providers) : reg_log[i].provider = providers[i]
       /\ DOMAIN provider_clients = {providers[i].pub_key : i \in 1..Len(providers)}
       /\ \A i \in 1..Len(providers) :
             provider_clients[providers[i].pub_key] =
                 IF reg_log[i].ok THEN "Connected" ELSE "Unreachable"

\* the first of two providers failed to register and the second succeeded
C6_Witness ==
    /\ checker_pc = "ready"
    /\ DistinctProviderKeys
    /\ Len(providers) = 2
    /\ ~reg_log[1].ok
    /\ reg_log[2].ok
    /\ provider_clients[providers[2].pub_key] = "Connected"

\* C7: an existing provider cache entry never changes its value, and a
\* provider whose key is already cached is reported as an error
C7_ProviderWriteOnce ==
    [][/\ \A k \in DOMAIN provider_clients :
             /\ k \in DOMAIN provider_clients'
             /\ provider_clients'[k] = provider_clients[k]
       /\ (checker_pc = "registering" /\ reg_index' = reg_index + 1
             /\ providers[reg_index].pub_key \in DOMAIN provider_clients)
          => errors' = errors + 1]_vars

\* C8: after a call of check_path that built and sent a test packet, the
\* PathStatus table has an entry for a path key of that path
C8_PendingRecorded ==
    (checker_pc = "ready" /\ last_call.sent # <<>>)
    => \E i \in Iterations : unique_path_key(last_call.path, i) \in DOMAIN paths_status

\* C19: no entry of the first-hop cache is ever Unreachable, and every call
\* of check_path on a path whose provider is Connected builds a packet and
\* attempts a send, also after a failed send through the same first hop
C19_FirstHopNeverUnreachable ==
    /\ [](\A k \in DOMAIN layer_one_clients : layer_one_clients[k] = "Connected")
    /\ [][(CalledOnCachedProvider
             /\ provider_clients[ProviderKey(last_call'.path)] = "Connected")
           => (/\ last_call'.built = 1
               /\ last_call'.sent = <<last_call'.path[1].address>>
               /\ \A k \in DOMAIN layer_one_clients :
                     layer_one_clients'[k] = layer_one_clients[k])]_vars

\* the send to a first hop failed and its entry is still Connected, next
\* to the entry of another first hop
C19_Witness ==
    /\ checker_pc = "ready"
    /\ last_call.result = "false"
    /\ last_call.sent # <<>>
    /\ layer_one_clients[FirstHopKey(last_call.path)] = "Connected"
    /\ Cardinality(DOMAIN layer_one_clients) = 2

\* ---------------------------------------------------------------------
\* MixnetListener
\* ---------------------------------------------------------------------
\* a raw packet, described by what its bytes decrypt and parse to: whether it
\* is encrypted to the prober's key, whether its plaintext parses as a
\* fragment, and the fragment (set, index, number of fragments, payload)
Packet(enc, wellformed, set_id, index, total, payload) ==
    [enc |-> enc, wellformed |-> wellformed, set_id |-> set_id,
     index |-> index, total |-> total, payload |-> payload]

\* the three fragments of one message and the two of an unrelated one
FragmentsF ==
    {Packet("ours", TRUE, "F", 1, 3, <<102, 49>>),
     Packet("ours", TRUE, "F", 2, 3, <<102, 50>>),
     Packet("ours", TRUE, "F", 3, 3, <<102, 51>>)}

FragmentsG ==
    {Packet("ours", TRUE, "G", 1, 2, <<103, 49>>),
     Packet("ours", TRUE, "G", 2, 2, <<103, 50>>)}

PlaintextF == <<102, 49, 102, 50, 102, 51>>

PlaintextG == <<103, 49, 103, 50>>

\* test packets of one fragment ("hello", and one holding a byte that is not
\* UTF-8), and the packets each stage of on_message fails on
TestPackets ==
    {Packet("ours", TRUE, "H", 1, 1, <<104, 101, 108, 108, 111>>),
     Packet("ours", TRUE, "A", 1, 1, <<65, 255, 52>>),
     Packet("other", TRUE, "X", 1, 1, <<120>>),
     Packet("ours", FALSE, "Y", 1, 1, <<121>>),
     Packet("ours", TRUE, "Z", 3, 2, <<122>>)}

RECURSIVE Perms(_)
Perms(S) ==
    IF S = {} THEN {<<>>}
    ELSE UNION {{<<x>> \o q : q \in Perms(S \ {x})} : x \in S}

\* every order of the five fragments
Interleavings == Perms(FragmentsF \cup FragmentsG)

Feeds == Interleavings \cup SeqsUpTo(TestPackets, MaxFeed)

Min(a, b) == IF a < b THEN a ELSE b

RECURSIVE Flatten(_)
Flatten(batches) ==
    IF batches = <<>> THEN <<>> ELSE batches[1] \o Flatten(Tail(batches))

\* MessageReceiver::recover_plaintext: decryption with the private key
recover_plaintext(packet) ==
    IF packet.enc = "ours" THEN [ok |-> TRUE, bytes |-> packet]
    ELSE [ok |-> FALSE, bytes |-> packet]

\* MessageReceiver::recover_fragment
recover_fragment(bytes) ==
    IF bytes.wellformed
    THEN [ok |-> TRUE,
          fragment |-> [set_id |-> bytes.set_id, index |-> bytes.index,
                        total |-> bytes.total, payload |-> bytes.payload]]
    ELSE [ok |-> FALSE, fragment |-> <<>>]

RECURSIVE ConcatFragments(_, _)
ConcatFragments(buffer, n) ==
    IF n = 0 THEN <<>> ELSE ConcatFragments(buffer, n - 1) \o buffer[n]

\* MessageReceiver::insert_new_fragment on the reassembly state: an error, or
\* "message still incomplete", or the completed message with its set released
insert_new_fragment(state, fragment) ==
    IF fragment.index \notin 1..fragment.total
    THEN [status |-> "err", message |-> <<>>, state |-> state]
    ELSE LET have == IF fragment.set_id \in DOMAIN state
                     THEN state[fragment.set_id] ELSE <<>>
             buffer == [i \in DOMAIN have \cup {fragment.index} |->
                           IF i = fragment.index THEN fragment.payload ELSE have[i]]
         IN  IF DOMAIN buffer = 1..fragment.total
             THEN [status |-> "complete",
                   message |-> ConcatFragments(buffer, fragment.total),
                   state |-> [k \in DOMAIN state \ {fragment.set_id} |-> state[k]]]
             ELSE [status |-> "incomplete", message |-> <<>>,
                   state |-> insert(state, fragment.set_id, buffer)]

\* U+FFFD REPLACEMENT CHARACTER
ReplacementChar == 65533

\* String::from_utf8_lossy on bytes that are ASCII or 0xF8..0xFF: a byte
\* that can occur in no UTF-8 sequence becomes U+FFFD
from_utf8_lossy(bytes) ==
    [i \in 1..Len(bytes) |-> IF bytes[i] < 128 THEN bytes[i] ELSE ReplacementChar]

on_message_skips_malformed(state, message) ==
    LET encrypted_bytes == recover_plaintext(message)
        fragment == recover_fragment(encrypted_bytes.bytes)
        inserted == insert_new_fragment(state, fragment.fragment)
    IN  IF ~encrypted_bytes.ok \/ ~fragment.ok \/ inserted.status = "err"
        THEN [panic |-> "none", state |-> state, printed |-> <<>>]
        ELSE IF inserted.status = "incomplete"
        THEN [panic |-> "no reconstructed message received from test packet",
              state |-> inserted.state, printed |-> <<>>]
        ELSE [panic |-> "none", state |-> inserted.state,
              printed |-> <<from_utf8_lossy(inserted.message)>>]

\* on_message(&mut self, message): the panic it ends in ("none" when it
\* returns), the reassembly state afterwards and the lines printed
on_message(state, message) ==
    LET encrypted_bytes == recover_plaintext(message)
        fragment == recover_fragment(encrypted_bytes.bytes)
        inserted == insert_new_fragment(state, fragment.fragment)
    IN  IF ~encrypted_bytes.ok
        THEN [panic |-> "could not recover plaintext from test packet",
              state |-> state, printed |-> <<>>]
        ELSE IF ~fragment.ok
        THEN [panic |-> "could not recover fragment from test packet",
              state |-> state, printed |-> <<>>]
        ELSE IF inserted.status = "err"
        THEN [panic |-> "error when reconstructing test packet message",
              state |-> inserted.state, printed |-> <<>>]
        ELSE IF inserted.status = "incomplete"
        THEN [panic |-> "no reconstructed message received from test packet",
              state |-> inserted.state, printed |-> <<>>]
        ELSE [panic |-> "none", state |-> inserted.state,
              printed |-> <<from_utf8_lossy(inserted.message)>>]

next_message_from_back(batch) == batch[Len(batch)]

\* `for message in messages`: the next message of the batch
next_message(batch) == batch[1]

\* the messages the loop has still to visit
rest_of_batch(batch) == Tail(batch)

ListenerInit ==
    /\ feed \in Feeds
    /\ delivered = 0
    /\ channel = <<>>
    /\ closed = FALSE
    /\ listener_pc = "waiting"
    /\ messages = <<>>
    /\ reassembly = EmptyMap
    /\ listener_panic = "none"
    /\ processed = <<>>
    /\ sink = <<>>
    /\ CodecIdle
    /\ CheckerIdle
    /\ MonitorIdle

\* the transport puts the next packets of the feed on the channel, as one batch
Deliver ==
    /\ ~closed
    /\ Len(channel) < MaxInFlight
    /\ delivered < Len(feed)
    /\ \E n \in 1..Min(MaxBatch, Len(feed) - delivered) :
          /\ channel' = Append(channel, SubSeq(feed, delivered + 1, delivered + n))
          /\ delivered' = delivered + n
    /\ UNCHANGED <<feed, closed, listener_pc, messages, reassembly,
                   listener_panic, processed, sink>>

\* the sending half of the channel is dropped
CloseChannel ==
    /\ ~closed
    /\ closed' = TRUE
    /\ UNCHANGED <<feed, delivered, channel, listener_pc, messages, reassembly,
                   listener_panic, processed, sink>>

\* self.mixnet_receiver.next().await yields Some(messages)
ReceiveBatch ==
    /\ listener_pc = "waiting"
    /\ channel # <<>>
    /\ messages' = Head(channel)
    /\ channel' = Tail(channel)
    /\ listener_pc' = "in_batch"
    /\ UNCHANGED <<feed, delivered, closed, reassembly, listener_panic,
                   processed, sink>>

\* next() yields None: panic!("MixnetListener channel failed. ...")
ChannelFailed ==
    /\ listener_pc = "waiting"
    /\ channel = <<>>
    /\ closed
    /\ listener_pc' = "panicked"
    /\ listener_panic' = "MixnetListener channel failed"
    /\ UNCHANGED <<feed, delivered, channel, closed, messages, reassembly,
                   processed, sink>>

\* self.on_message(message).await for the next message of the batch; after
\* the last one the loop is back at next().await
OnMessage ==
    /\ listener_pc = "in_batch"
    /\ LET message == next_message(messages)
           r == on_message(reassembly, message)
       IN  /\ processed' = Append(processed, message)
           /\ reassembly' = r.state
           /\ sink' = sink \o r.printed
           /\ listener_panic' = r.panic
           /\ messages' = rest_of_batch(messages)
           /\ listener_pc' = IF r.panic # "none" THEN "panicked"
                             ELSE IF rest_of_batch(messages) = <<>> THEN "waiting"
                             ELSE "in_batch"
    /\ UNCHANGED <<feed, delivered, channel, closed>>

ListenerNext ==
    \/ Deliver /\ UNCHANGED <<codec_vars, checker_vars, monitor_vars>>
    \/ CloseChannel /\ UNCHANGED <<codec_vars, checker_vars, monitor_vars>>
    \/ ReceiveBatch /\ UNCHANGED <<codec_vars, checker_vars, monitor_vars>>
    \/ ChannelFailed /\ UNCHANGED <<codec_vars, checker_vars, monitor_vars>>
    \/ OnMessage /\ UNCHANGED <<codec_vars, checker_vars, monitor_vars>>

SpecListener == ListenerInit /\ [][ListenerNext]_vars

\* the packets the channel has been given so far, in arrival order
Arrived == SubSeq(feed, 1, delivered)

\* C9: fed the fragments of F and G in any order, the listener does not stop
\* at a fragment that leaves its message incomplete, and once it has
\* processed all five the sink holds exactly the plaintexts of F and of G
C9_Reassembly ==
    feed \in Interleavings
    => /\ listener_panic # "no reconstructed message received from test packet"
       /\ Len(processed) = 5
             => \/ sink = <<from_utf8_lossy(PlaintextF), from_utf8_lossy(PlaintextG)>>
                \/ sink = <<from_utf8_lossy(PlaintextG), from_utf8_lossy(PlaintextF)>>

\* C10: while the listener runs, the packets it has processed, followed by
\* the rest of its batch and the batches still on the channel, are the
\* arrived packets in arrival order; what it has processed is always the
\* beginning of what arrived
C10_ArrivalOrder ==
    /\ Len(processed) <= delivered
    /\ processed = SubSeq(feed, 1, Len(processed))
    /\ listener_pc \in {"waiting", "in_batch"}
          => processed \o messages \o Flatten(channel) = Arrived

\* the listener has processed the same packet twice and then a different
\* one, the three having arrived in two batches
C10_Witness ==
    /\ listener_pc = "waiting"
    /\ Len(processed) = 3
    /\ processed[1] = processed[2]
    /\ processed[2] # processed[3]
    /\ Len(sink) = 3
    /\ channel = <<>>

\* a packet that cannot be decrypted, or parsed as a fragment, or inserted
Malformed(packet) ==
    \/ packet.enc # "ours"
    \/ ~packet.wellformed
    \/ packet.index \notin 1..packet.total

\* C12: a packet that fails decryption, fragment recovery or reassembly is
\* the last one the listener processes: the listener has panicked, and from
\* then on it processes no packet and hands nothing to the sink
C12_FailureIsFatal ==
    /\ [](\A i \in 1..Len(processed) :
             Malformed(processed[i]) => (i = Len(processed) /\ listener_pc = "panicked"))
    /\ [][listener_pc = "panicked"
           => (/\ listener_pc' = "panicked"
               /\ processed' = processed
               /\ sink' = sink
               /\ messages' = messages)]_vars

\* the listener panicked on a malformed fragment after a good packet, with a
\* later batch left on the channel
C12_Witness ==
    /\ listener_pc = "panicked"
    /\ listener_panic = "could not recover fragment from test packet"
    /\ Len(processed) = 2
    /\ Len(sink) = 1
    /\ channel # <<>>

\* ---------------------------------------------------------------------
\* Monitor
\* ---------------------------------------------------------------------
\* MixNodePresence: pub_key is a String, here its ASCII bytes ("A", "B")
MixNodes == {[pub_key |-> <<65>>], [pub_key |-> <<66>>]}

\* big_topology.mix_nodes as the directory server may answer it
RelayLists == SeqsUpTo(MixNodes, MaxRelays)

\* the known-good reference topology [X, Y, D]
good_topology == <<[pub_key |-> <<88>>], [pub_key |-> <<89>>], [pub_key |-> <<68>>]>>

\* good_topology::new_with_node: the candidate relay in an otherwise
\* trusted path
new_with_node(mixnode) == <<mixnode, good_topology[2], good_topology[3]>>

\* "hello".to_string()
HelloMessage == <<104, 101, 108, 108, 111>>

\* mixnode.pub_key + ":4"
node_message(mixnode) == mixnode.pub_key \o <<58, 52>>

\* what one call of prepare_messages and send_messages sends
Probe(kind, index, mixnode, through, message) ==
    [kind |-> kind, index |-> index, mixnode |-> mixnode,
     through |-> through, message |-> message]

\* the packet a probe comes back as: one fragment, addressed to the prober
ReplyPacket(probe) == Packet("ours", TRUE, probe.message, 1, 1, probe.message)

run_sequence_spawn_after_sanity ==
    <<"authenticate", "sanity_check", "spawn_listener", "test_all_nodes",
      "wait_for_interrupt">>

run_sequence_without_sanity ==
    <<"authenticate", "spawn_listener", "test_all_nodes", "wait_for_interrupt">>

\* the statements of the async block of Monitor::run, in order
run_sequence ==
    <<"authenticate", "spawn_listener", "sanity_check", "test_all_nodes",
      "wait_for_interrupt">>

\* the statement after stmt; after the last one block_on returns
NextStatement(stmt) ==
    LET i == CHOOSE j \in 1..Len(run_sequence) : run_sequence[j] = stmt
    IN  IF i < Len(run_sequence) THEN run_sequence[i + 1] ELSE "returned"

authenticate_expect_ignored(ok) == TRUE

\* authenticate_and_start().await.expect(..): goes on only when Ok
authenticate_expect(ok) == ok

\* batch_send_sphinx_packets(..).await.unwrap(): goes on only when Ok
send_unwrap(ok) == ok

sweep_node_from_back(all_mixnodes, k) == all_mixnodes[Len(all_mixnodes) + 1 - k]

\* `for mixnode in all_mixnodes`: the k-th relay tested
sweep_node(all_mixnodes, k) == all_mixnodes[k]

\* the process runs until run() panics or returns
ProcessAlive == monitor_pc \notin {"panicked", "returned"}

MonitorInit ==
    /\ monitor_pc = run_sequence[1]
    /\ monitor_panic = "none"
    /\ authenticated = FALSE
    /\ listener_spawned = FALSE
    /\ topology = NotFetched
    /\ sweep_index = 0
    /\ ticks = 0
    /\ in_flight = {}
    /\ sends = <<>>
    /\ network = <<>>
    /\ ListenerIdle
    /\ CodecIdle
    /\ CheckerIdle

\* self.config.gateway_client.authenticate_and_start().await.expect(..)
Authenticate ==
    /\ monitor_pc = "authenticate"
    /\ \E ok \in BOOLEAN :
          /\ authenticated' = ok
          /\ IF authenticate_expect(ok)
             THEN /\ monitor_pc' = NextStatement(monitor_pc)
                  /\ monitor_panic' = monitor_panic
             ELSE /\ monitor_pc' = "panicked"
                  /\ monitor_panic' = "Couldn't authenticate with gateway node."
    /\ UNCHANGED <<listener_spawned, topology, sweep_index, ticks, in_flight,
                   sends, network>>
    /\ UNCHANGED listener_vars

\* tokio::spawn(async move { MixnetListener::new(..).run().await })
SpawnListener ==
    /\ monitor_pc = "spawn_listener"
    /\ listener_spawned' = TRUE
    /\ listener_pc' = "waiting"
    /\ monitor_pc' = NextStatement(monitor_pc)
    /\ UNCHANGED <<monitor_panic, authenticated, topology, sweep_index, ticks,
                   in_flight, sends, network>>
    /\ UNCHANGED <<feed, delivered, channel, closed, messages, reassembly,
                   listener_panic, processed, sink>>

\* sanity_check: prepare "hello" through the reference topology and start
\* send_messages
SanityCheck ==
    /\ monitor_pc = "sanity_check"
    /\ in_flight = {}
    /\ in_flight' = {Probe("sanity", 0, good_topology[1], good_topology, HelloMessage)}
    /\ UNCHANGED <<monitor_pc, monitor_panic, authenticated, listener_spawned,
                   topology, sweep_index, ticks, sends, network>>
    /\ UNCHANGED listener_vars

\* batch_send_sphinx_packets(..).await answers, and unwrap() panics on Err;
\* after the sanity check run() goes on, in the sweep the loop does
SendCompleted ==
    /\ ProcessAlive
    /\ \E probe \in in_flight, ok \in BOOLEAN :
          /\ in_flight' = in_flight \ {probe}
          /\ sends' = Append(sends, [probe |-> probe, ok |-> ok])
          /\ network' = IF ok THEN Append(network, ReplyPacket(probe)) ELSE network
          /\ IF send_unwrap(ok)
             THEN /\ monitor_panic' = monitor_panic
                  /\ IF probe.kind = "sanity"
                     THEN /\ monitor_pc' = NextStatement(monitor_pc)
                          /\ sweep_index' = sweep_index
                     ELSE /\ monitor_pc' = monitor_pc
                          /\ sweep_index' = sweep_index + 1
             ELSE /\ monitor_pc' = "panicked"
                  /\ monitor_panic' = "called Result::unwrap() on an Err value"
                  /\ sweep_index' = sweep_index
    /\ UNCHANGED <<authenticated, listener_spawned, topology, ticks>>
    /\ UNCHANGED listener_vars

\* test_all_nodes: directory.get_topology().await.expect(..) and
\* all_mixnodes.last().expect(..)
FetchTopology ==
    /\ monitor_pc = "test_all_nodes"
    /\ ~topology.fetched
    /\ \E ok \in BOOLEAN, mix_nodes \in RelayLists :
          IF ~ok
          THEN /\ monitor_pc' = "panicked"
               /\ monitor_panic' = "couldn't retrieve topology from the directory server"
               /\ UNCHANGED <<topology, sweep_index>>
          ELSE /\ topology' = [fetched |-> TRUE, mix_nodes |-> mix_nodes]
               /\ IF mix_nodes = <<>>
                  THEN /\ monitor_pc' = "panicked"
                       /\ monitor_panic' = "No nodes in mixnode list. Exiting."
                       /\ sweep_index' = sweep_index
                  ELSE /\ sweep_index' = 1
                       /\ UNCHANGED <<monitor_pc, monitor_panic>>
    /\ UNCHANGED <<authenticated, listener_spawned, ticks, in_flight, sends, network>>
    /\ UNCHANGED listener_vars

\* the relay the loop of test_all_nodes is at has not been tested yet
SweepPending ==
    /\ monitor_pc = "test_all_nodes"
    /\ topology.fetched
    /\ sweep_index \in 1..Len(topology.mix_nodes)
    /\ in_flight = {}

\* interval.tick().await
Tick ==
    /\ SweepPending
    /\ ticks = sweep_index - 1
    /\ ticks' = ticks + 1
    /\ UNCHANGED <<monitor_pc, monitor_panic, authenticated, listener_spawned,
                   topology, sweep_index, in_flight, sends, network>>
    /\ UNCHANGED listener_vars

\* test_a_node(mixnode): prepare pub_key + ":4" through the reference
\* topology with the relay substituted and start send_messages
TestANode ==
    /\ SweepPending
    /\ ticks = sweep_index
    /\ LET mixnode == sweep_node(topology.mix_nodes, sweep_index)
       IN  in_flight' = {Probe("sweep", sweep_index, mixnode,
                               new_with_node(mixnode), node_message(mixnode))}
    /\ UNCHANGED <<monitor_pc, monitor_panic, authenticated, listener_spawned,
                   topology, sweep_index, ticks, sends, network>>
    /\ UNCHANGED listener_vars

\* the loop of test_all_nodes is over
FinishSweep ==
    /\ monitor_pc = "test_all_nodes"
    /\ topology.fetched
    /\ sweep_index > Len(topology.mix_nodes)
    /\ in_flight = {}
    /\ monitor_pc' = NextStatement(monitor_pc)
    /\ UNCHANGED <<monitor_panic, authenticated, listener_spawned, topology,
                   sweep_index, ticks, in_flight, sends, network>>
    /\ UNCHANGED listener_vars

\* wait_for_interrupt: ctrl_c().await answers (Ok or Err), run() returns
Interrupt ==
    /\ monitor_pc = "wait_for_interrupt"
    /\ monitor_pc' = NextStatement(monitor_pc)
    /\ UNCHANGED <<monitor_panic, authenticated, listener_spawned, topology,
                   sweep_index, ticks, in_flight, sends, network>>
    /\ UNCHANGED listener_vars

\* the gateway hands a packet that came back through the mixnet to the
\* inbound channel, as a batch
GatewayDelivers ==
    /\ ProcessAlive
    /\ ~closed
    /\ Len(channel) < MaxInFlight
    /\ \E i \in 1..Len(network) :
          /\ channel' = Append(channel, <<network[i]>>)
          /\ network' = SubSeq(network, 1, i - 1) \o SubSeq(network, i + 1, Len(network))
    /\ UNCHANGED <<monitor_pc, monitor_panic, authenticated, listener_spawned,
                   topology, sweep_index, ticks, in_flight, sends>>
    /\ UNCHANGED <<feed, delivered, closed, listener_pc, messages, reassembly,
                   listener_panic, processed, sink>>

\* the steps of the orchestration task
Orchestration ==
    \/ Authenticate
    \/ SpawnListener
    \/ SanityCheck
    \/ SendCompleted
    \/ FetchTopology
    \/ Tick
    \/ TestANode
    \/ FinishSweep

MonitorNext ==
    \/ Authenticate /\ UNCHANGED <<codec_vars, checker_vars>>
    \/ SpawnListener /\ UNCHANGED <<codec_vars, checker_vars>>
    \/ SanityCheck /\ UNCHANGED <<codec_vars, checker_vars>>
    \/ SendCompleted /\ UNCHANGED <<codec_vars, checker_vars>>
    \/ FetchTopology /\ UNCHANGED <<codec_vars, checker_vars>>
    \/ Tick /\ UNCHANGED <<codec_vars, checker_vars>>
    \/ TestANode /\ UNCHANGED <<codec_vars, checker_vars>>
    \/ FinishSweep /\ UNCHANGED <<codec_vars, checker_vars>>
    \/ Interrupt /\ UNCHANGED <<codec_vars, checker_vars>>
    \/ GatewayDelivers /\ UNCHANGED <<codec_vars, checker_vars>>
    \/ ProcessAlive /\ ReceiveBatch /\ UNCHANGED <<codec_vars, checker_vars, monitor_vars>>
    \/ ProcessAlive /\ OnMessage /\ UNCHANGED <<codec_vars, checker_vars, monitor_vars>>
    \/ ProcessAlive /\ ChannelFailed /\ UNCHANGED <<codec_vars, checker_vars, monitor_vars>>
    \/ ProcessAlive /\ CloseChannel /\ UNCHANGED <<codec_vars, checker_vars, monitor_vars>>

SpecMonitor == MonitorInit /\ [][MonitorNext]_vars

\* the runtime keeps polling the orchestration task: authentication, the
\* directory, the pacing timer and every send answer in the end
SpecMonitorFair ==
    MonitorInit /\ [][MonitorNext]_vars
    /\ WF_vars(Orchestration /\ UNCHANGED <<codec_vars, checker_vars>>)

\* the probes whose send has been started, completed or not
ProbesStarted == {sends[i].probe : i \in 1..Len(sends)} \cup in_flight

\* the sweep probes whose send has completed, in the order of completion
RECURSIVE SweepSends(_)
SweepSends(log) ==
    IF log = <<>> THEN <<>>
    ELSE IF log[Len(log)].probe.kind = "sweep"
    THEN Append(SweepSends(SubSeq(log, 1, Len(log) - 1)), log[Len(log)])
    ELSE SweepSends(SubSeq(log, 1, Len(log) - 1))

\* C11: once the listener has seen the inbound channel closed, the
\* orchestration task has stopped too: the monitor does nothing more
C11_ChannelClosureStopsMonitor ==
    [][listener_panic = "MixnetListener channel failed"
         => (/\ monitor_pc' = monitor_pc
             /\ in_flight' = in_flight
             /\ sends' = sends
             /\ ticks' = ticks)]_vars

\* C13: a failed authentication ends the run with the listener not spawned,
\* the topology not fetched and no probe sent, and every send is started
\* after a successful authentication
C13_NoProbeWithoutAuthentication ==
    /\ monitor_panic = "Couldn't authenticate with gateway node."
          => (/\ monitor_pc = "panicked"
              /\ ~listener_spawned
              /\ listener_pc = "idle"
              /\ ~topology.fetched
              /\ ProbesStarted = {})
    /\ (monitor_pc # "authenticate" /\ ~authenticated) => monitor_pc = "panicked"
    /\ ProbesStarted # {} => authenticated

\* authentication failed and nothing else has happened
C13_Witness ==
    /\ monitor_pc = "panicked"
    /\ monitor_panic = "Couldn't authenticate with gateway node."
    /\ ~authenticated
    /\ sends = <<>>

\* C14: a failed send of a sweep probe does not abort the run: the monitor
\* has not panicked, and it goes on to the next relay
C14_SendFailureDoesNotAbort ==
    \A i \in 1..Len(sends) :
        (sends[i].probe.kind = "sweep" /\ ~sends[i].ok)
        => (/\ monitor_pc # "panicked"
            /\ sweep_index > sends[i].probe.index)

C16_SanityObservedBeforeSweep ==
    (\E q \in ProbesStarted : q.kind = "sweep")
    => \E i \in 1..Len(sink) : sink[i] = from_utf8_lossy(HelloMessage)

\* C17: the topology is fetched before the sanity-check probe is sent, and
\* a failed fetch or an empty relay list ends the run with no probe sent
C17_FetchBeforeProbes ==
    /\ ProbesStarted # {} => topology.fetched
    /\ monitor_panic \in {"couldn't retrieve topology from the directory server",
                          "No nodes in mixnode list. Exiting."}
          => ProbesStarted = {}

\* C18: the listener is spawned before any probe is sent, and the two tasks
\* do not wait for each other: a send can be started or completed whatever
\* the listener is doing, and the listener can take the next batch or
\* message whatever the monitor is doing
C18_ListenerSpawnedBeforeProbes ==
    /\ ProbesStarted # {} => listener_spawned
    /\ monitor_pc \in {"sanity_check", "test_all_nodes", "wait_for_interrupt"}
          => listener_spawned
    /\ (ProcessAlive /\ listener_pc = "in_batch") => ENABLED OnMessage
    /\ (ProcessAlive /\ listener_pc = "waiting" /\ channel # <<>>) => ENABLED ReceiveBatch
    /\ (ProcessAlive /\ in_flight # {}) => ENABLED SendCompleted
    /\ (monitor_pc = "sanity_check" /\ in_flight = {}) => ENABLED SanityCheck
    /\ (SweepPending /\ ticks = sweep_index) => ENABLED TestANode

\* a sweep probe is being sent while the listener is in the middle of the
\* reply to the sanity check
C18_Witness ==
    /\ listener_spawned
    /\ listener_pc = "in_batch"
    /\ \E q \in in_flight : q.kind = "sweep"
    /\ messages = <<ReplyPacket(sends[1].probe)>>

\* the phase of the run: Authenticating (with the start of the listener),
\* SanityChecking, Sweeping, Interrupted, and the end of the run
PhaseRank(pc) ==
    CASE pc \in {"authenticate", "spawn_listener"} -> 1
      [] pc = "sanity_check" -> 2
      [] pc = "test_all_nodes" -> 3
      [] pc = "wait_for_interrupt" -> 4
      [] OTHER -> 5

\* something the run depends on has failed
SomethingFailed ==
    \/ monitor_pc # "authenticate" /\ ~authenticated
    \/ monitor_panic \in {"couldn't retrieve topology from the directory server",
                          "No nodes in mixnode list. Exiting."}
    \/ \E i \in 1..Len(sends) : ~sends[i].ok

\* C20: the run never goes back to an earlier phase; unless authentication,
\* the fetch or a send fails it reaches the interrupt wait, having made
\* n + 1 sends, the sanity check and then one per relay; there it sends
\* nothing more, and it ends only by the interrupt
C20_PhasesAndTermination ==
    /\ [][PhaseRank(monitor_pc') >= PhaseRank(monitor_pc)]_vars
    /\ [](monitor_pc = "panicked" => SomethingFailed)
    /\ [](monitor_pc \in {"wait_for_interrupt", "returned"}
            => (/\ ~SomethingFailed
                /\ in_flight = {}
                /\ Len(sends) = Len(topology.mix_nodes) + 1
                /\ sends[1].probe.kind = "sanity"
                /\ \A i \in 2..Len(sends) : sends[i].probe.kind = "sweep"))
    /\ [][monitor_pc = "wait_for_interrupt" => (sends' = sends /\ in_flight' = in_flight)]_vars
    /\ [][monitor_pc' = "returned" => monitor_pc \in {"wait_for_interrupt", "returned"}]_vars
    /\ <>(monitor_pc \in {"wait_for_interrupt", "returned"} \/ SomethingFailed)

\* the run has ended by the interrupt after the sanity check and a sweep of
\* two relays
C20_Witness ==
    /\ monitor_pc = "returned"
    /\ Len(sends) = 3
    /\ \A i \in 1..3 : sends[i].ok
====
